---- MODULE Spec2Model ----
(***************************************************************************)
(* Ride lifecycle of the smart-cycle booking backend.                      *)
(*                                                                         *)
(* The store holds three collections (rides, cycles, stations).  Every     *)
(* HTTP handler is an async function: each `await` of a store operation is *)
(* a point where other requests run.  One action of this module is one     *)
(* store operation of one request together with the synchronous code that  *)
(* follows it up to the next `await` (or up to the response).              *)
(***************************************************************************)
EXTENDS Integers, Sequences, FiniteSets, TLC

VARIABLES
  rides,      \* Ride collection, in insertion order; a ride's _id is its index
  cycles,     \* Cycle collection: document _id -> its fields
  stations,   \* Station collection: document _id -> its fields
  now,        \* the last reading of the wall clock, milliseconds
  reqs,       \* requests in flight: slot -> the handler's local state
  served,     \* requests accepted and store failures so far
  response    \* the HTTP response sent by the last step (NoResponse when none)

vars == <<rides, cycles, stations, now, reqs, served, response>>

\* JavaScript null, one per type of value (TLC compares like with like).
NULL == "null"          \* a missing document reference or string
NullDate == -1          \* endTime: { default: null }
NoRating == 0           \* feedback without a rating (feedback || {})

\* ------------------------------------------------------------------ bounds
MaxReq == 2      \* requests in flight at the same time
MaxRides == 2    \* ride documents ever created
MaxTicks == 1    \* clock ticks of TickMs each
MaxRequests == 3 \* requests over a run, riders' and the administrator's
MaxFailures == 1 \* store operations that fail over a run

\* ------------------------------------------------------ the model's universe
TickMs == 30 * 1000
MsPerMinute == 1000 * 60

Users == {"u1", "u2"}
CycleDocs == {"c1", "c2", "c3"}
NewCycleDocs == {"c3"}     \* the documents that cycle creation adds
StationDocs == {"s1", "s2"}
Reqs == 1..MaxReq

\* new Date(): the clock does not run backwards.
Times == {k * TickMs : k \in 0..MaxTicks}
NewDate == {t \in Times : t >= now}

\* Cycle.cycleId: the unique external identifier encoded in the QR code.
ExternalId(c) ==
  IF c = "c1" THEN "CYCLE001" ELSE IF c = "c2" THEN "CYCLE002" ELSE "CYCLE003"

CycleStatus == {"available", "in-use", "maintenance", "out-of-service"}

\* Request bodies that pass validation: CYCLE999 names no cycle.  A field of
\* the body is drawn when the handler first uses it.
CycleIdInputs == {"CYCLE001", "CYCLE002", "CYCLE999"}
StationIdInputs == StationDocs
RatingInputs == {NoRating, 5}
\* The documents the administrator's requests name.
AdminCycleInputs == {"c1"}
AdminStationInputs == {"s1"}

\* ------------------------------------------------------------ Ride model
\* Ride schema defaults: endTime null, duration 0, status active,
\* endStation null, feedback empty.
NewRide(userId, cycleId, stationId, startTime) ==
  [ userId |-> userId, cycleId |-> cycleId, startStation |-> stationId,
    startTime |-> startTime, endTime |-> NullDate, duration |-> 0,
    status |-> "active", endStation |-> NULL, feedback |-> NoRating ]

\* Math.round of a non-negative quotient n/d (round half up).
MathRound(n, d) == (2 * n + d) \div (2 * d)

\* rideSchema.pre('save'): duration from the two timestamps, when both are set.
PreSave(ride) ==
  IF ride.endTime # NullDate /\ ride.startTime # NullDate
  THEN [ride EXCEPT !.duration = MathRound(ride.endTime - ride.startTime, MsPerMinute)]
  ELSE ride

\* Ride.create: a new document, saved (the pre('save') hook runs).
RideCreate(rs, userId, cycleId, stationId, startTime) ==
  Append(rs, PreSave(NewRide(userId, cycleId, stationId, startTime)))

\* Ride.findByIdAndUpdate(id, update): an update query; it sets the listed
\* fields only and runs no pre('save') hook.
RideEndUpdate(rs, id, endTime, stationId, feedback) ==
  [rs EXCEPT ![id] = [@ EXCEPT !.endTime = endTime, !.endStation = stationId,
                                !.status = "completed", !.feedback = feedback]]

\* Mutant of RideCancelUpdate: the end timestamp is not set.
RideCancelUpdate_NoEndTime(rs, id, endTime) ==
  [rs EXCEPT ![id] = [@ EXCEPT !.status = "cancelled"]]

RideCancelUpdate(rs, id, endTime) ==
  [rs EXCEPT ![id] = [@ EXCEPT !.endTime = endTime, !.status = "cancelled"]]

\* Mutant of IsActiveRideOf: the filter without the rider.
IsActiveRideOf_AnyUser(ride, userId) ==
  ride.status = "active" /\ ride.endTime = NullDate

\* The filter of findActiveRide.
IsActiveRideOf(ride, userId) ==
  ride.userId = userId /\ ride.status = "active" /\ ride.endTime = NullDate

ActiveRideIds(rs, userId) ==
  {i \in 1..Len(rs) : IsActiveRideOf(rs[i], userId)}

Min(S) == CHOOSE x \in S : \A y \in S : x <= y

\* Ride.findActiveRide(userId): findOne returns the first match in natural
\* (insertion) order; populate('cycleId') yields null when the referenced
\* cycle document no longer exists.
NoRide == [ _id |-> 0, cycleId |-> NULL ]

findActiveRide(rs, cs, userId) ==
  IF ActiveRideIds(rs, userId) = {} THEN NoRide
  ELSE LET i == Min(ActiveRideIds(rs, userId)) IN
       [ _id |-> i,
         cycleId |-> IF cs[rs[i].cycleId].exists THEN rs[i].cycleId ELSE NULL ]

\* ----------------------------------------------------------- Cycle model
\* Cycle.findOne({ cycleId, isActive: true })
NoCycle == [ _id |-> NULL, status |-> NULL ]

CycleFindOne(cs, cycleId) ==
  LET hit == {c \in CycleDocs : cs[c].exists /\ cs[c].isActive
                                 /\ ExternalId(c) = cycleId} IN
  IF hit = {} THEN NoCycle
  ELSE LET c == CHOOSE c \in hit : TRUE IN [ _id |-> c, status |-> cs[c].status ]

\* Cycle.findById(id)
CycleFindById(cs, id) ==
  IF cs[id].exists THEN [ _id |-> id, status |-> cs[id].status ] ELSE NoCycle

\* document.save() of a loaded cycle whose status was assigned newStatus:
\* the update sets status only when the assignment changed the loaded value
\* (updatedAt is always written); it fails when the document is gone.
CycleSaveFails(cs, doc) == ~cs[doc._id].exists

CycleSave(cs, doc, newStatus) ==
  IF newStatus # doc.status
  THEN [cs EXCEPT ![doc._id].status = newStatus]
  ELSE cs

\* Mutant of updateStatus: the status is assigned but never saved.
updateStatus_NoSave(cs, doc, newStatus) == cs

\* cycleSchema.methods.updateStatus: this.status = newStatus; this.save()
updateStatus(cs, doc, newStatus) == CycleSave(cs, doc, newStatus)

\* Cycle.findByIdAndUpdate(id, update): no document with that id, no write.
CycleUpdateById(cs, id, field, value) ==
  IF id # NULL /\ cs[id].exists
  THEN [cs EXCEPT ![id] = IF field = "status" THEN [@ EXCEPT !.status = value]
                          ELSE [@ EXCEPT !.isActive = value]]
  ELSE cs

\* Station.findById(id)
StationFindById(ss, id) == IF ss[id].exists THEN id ELSE NULL

\* ------------------------------------------------------------- requests
\* The handler's local state between two awaits: the request body, what the
\* middleware and the handler have read so far, and the ride it has written
\* (ride, 0 when none yet).
IdleReq ==
  [ op |-> "none", pc |-> "idle", user |-> NULL, valid |-> TRUE,
    id |-> NULL, cycleId |-> NULL,
    stationId |-> NULL, feedback |-> NoRating, newStatus |-> NULL,
    activeRide |-> NoRide, cycle |-> NoCycle, ride |-> 0 ]

NewReq(op, pc, user, cycleId, stationId, feedback, newStatus, activeRide) ==
  [ IdleReq EXCEPT !.op = op, !.pc = pc, !.user = user, !.cycleId = cycleId,
                   !.stationId = stationId, !.feedback = feedback,
                   !.newStatus = newStatus, !.activeRide = activeRide ]

Free(q) == reqs[q].pc = "idle"

\* An incoming request.
Accept ==
  /\ served.requests < MaxRequests
  /\ served' = [served EXCEPT !.requests = @ + 1]

\* An incoming request whose handler awaits takes the first free slot.
AcceptIn(q) ==
  /\ Free(q) /\ \A p \in Reqs : p < q => ~Free(p)
  /\ Accept

\* Ride.create calls still to come from the requests in flight.
PendingCreates ==
  Cardinality({q \in Reqs : reqs[q].op = "start" /\ reqs[q].ride = 0})

\* res.status(code).json({ success, message, data }): the response, with the
\* request it answers and what that request wrote (ride: the ride it created
\* or updated, wroteCycle: whether its cycle write was applied).
NoResponse ==
  [ op |-> "none", user |-> NULL, valid |-> TRUE, id |-> NULL,
    cycleId |-> NULL, stationId |-> NULL, feedback |-> NoRating,
    activeRide |-> NoRide, ride |-> 0, wroteCycle |-> FALSE,
    status |-> 0, message |-> NULL, data |-> 0 ]

Respond(r, code, message, data, wroteCycle) ==
  [ op |-> r.op, user |-> r.user, valid |-> r.valid, id |-> r.id,
    cycleId |-> r.cycleId, stationId |-> r.stationId, feedback |-> r.feedback,
    activeRide |-> r.activeRide,
    ride |-> r.ride, wroteCycle |-> wroteCycle,
    status |-> code, message |-> message, data |-> data ]

\* A handler returns: its slot is free again.
Return(q, r, code, message, data, wroteCycle) ==
  /\ reqs' = [reqs EXCEPT ![q] = IdleReq]
  /\ response' = Respond(r, code, message, data, wroteCycle)

\* A handler goes on to its next await.
Await(q, r) ==
  /\ reqs' = [reqs EXCEPT ![q] = r]
  /\ response' = NoResponse

\* express-validator chains of POST /start and POST /end: cycleId and
\* stationId not empty, feedback.rating (when given) an integer in 1..5.
\* A request carries the outcome as its field valid; the fields of a valid
\* body are the inputs above.

\* checkActiveRide (middleware/auth): req.activeRide is the rider's active
\* ride as Ride.findActiveRide finds it when the request comes in.
checkActiveRide(userId) == findActiveRide(rides, cycles, userId)

\* ----------------------------------------------------- POST /api/rides/start
\* Mutant of StartConflict: the active-ride check left out.
StartConflict_Never(r) == FALSE

\* if (req.activeRide)
StartConflict(r) == r.activeRide # NoRide

\* Mutant of CycleIsAvailable: only a cycle in use is refused.
CycleIsAvailable_NotInUse(cycle) == cycle.status # "in-use"

\* if (cycle.status !== 'available')
CycleIsAvailable(cycle) == cycle.status = "available"

\* protect, checkActiveRide, validation, the active-ride check.
StartRideRequest(q, userId, valid) ==
  /\ AcceptIn(q)
  /\ Len(rides) + PendingCreates < MaxRides
  /\ LET r == NewReq("start", "findCycle", userId, NULL, NULL,
                     NoRating, NULL, checkActiveRide(userId)) IN
     IF ~valid
     THEN Return(q, [r EXCEPT !.valid = FALSE], 400, "validation", 0, FALSE)
     ELSE IF StartConflict(r)
     THEN Return(q, r, 400, "You already have an active ride", 0, FALSE)
     ELSE Await(q, r)
  /\ UNCHANGED <<rides, cycles, stations, now>>

\* Cycle.findOne, then the availability check.
StartFindCycle(q, cycleId) ==
  /\ reqs[q].op = "start" /\ reqs[q].pc = "findCycle"
  /\ LET r == [reqs[q] EXCEPT !.cycleId = cycleId]
         cycle == CycleFindOne(cycles, r.cycleId) IN
     IF cycle = NoCycle
     THEN Return(q, r, 404, "Cycle not found", 0, FALSE)
     ELSE IF ~CycleIsAvailable(cycle)
     THEN Return(q, r, 400, "Cycle is not available for use", 0, FALSE)
     ELSE Await(q, [r EXCEPT !.cycle = cycle, !.pc = "findStation"])
  /\ UNCHANGED <<rides, cycles, stations, now, served>>

\* Station.findById
StartFindStation(q, stationId) ==
  /\ reqs[q].op = "start" /\ reqs[q].pc = "findStation"
  /\ LET r == [reqs[q] EXCEPT !.stationId = stationId] IN
     IF StationFindById(stations, r.stationId) = NULL
     THEN Return(q, r, 404, "Station not found", 0, FALSE)
     ELSE Await(q, [r EXCEPT !.pc = "createRide"])
  /\ UNCHANGED <<rides, cycles, stations, now, served>>

\* Ride.create
StartCreateRide(q, date) ==
  /\ reqs[q].op = "start" /\ reqs[q].pc = "createRide"
  /\ LET r == reqs[q] IN
     /\ rides' = RideCreate(rides, r.user, r.cycle._id, r.stationId, date)
     /\ Await(q, [r EXCEPT !.ride = Len(rides) + 1,
                           !.pc = "saveCycle"])
  /\ now' = date
  /\ UNCHANGED <<cycles, stations, served>>

\* cycle.updateStatus('in-use'), then the 201 response.
StartSaveCycle(q) ==
  /\ reqs[q].op = "start" /\ reqs[q].pc = "saveCycle"
  /\ LET r == reqs[q] IN
     IF CycleSaveFails(cycles, r.cycle)
     THEN /\ Return(q, r, 500, "Server error while starting ride", 0, FALSE)
          /\ UNCHANGED cycles
     ELSE /\ cycles' = updateStatus(cycles, r.cycle, "in-use")
          /\ Return(q, r, 201, "Ride started successfully", r.ride, TRUE)
  /\ UNCHANGED <<rides, stations, now, served>>

\* ------------------------------------------------------- POST /api/rides/end
\* Mutant of EndNoActiveRide: the active-ride check left out.
EndNoActiveRide_Never(r) == FALSE

\* if (!req.activeRide)
EndNoActiveRide(r) == r.activeRide = NoRide

\* Mutant of CycleMatchesRide: any cycle found is accepted.
CycleMatchesRide_Any(activeRide, cycle) == TRUE

\* req.activeRide.cycleId._id.toString() !== cycle._id.toString()
CycleMatchesRide(activeRide, cycle) == activeRide.cycleId = cycle._id

EndRideRequest(q, userId, valid) ==
  /\ AcceptIn(q)
  /\ LET r == NewReq("end", "findCycle", userId, NULL, NULL,
                     NoRating, NULL, checkActiveRide(userId)) IN
     IF ~valid
     THEN Return(q, [r EXCEPT !.valid = FALSE], 400, "validation", 0, FALSE)
     ELSE IF EndNoActiveRide(r)
     THEN Return(q, r, 400, "No active ride found", 0, FALSE)
     ELSE Await(q, r)
  /\ UNCHANGED <<rides, cycles, stations, now>>

\* Cycle.findOne, then the comparison with the active ride's cycle; reading
\* ._id of a populated reference that is null throws (caught: 500).
EndFindCycle(q, cycleId) ==
  /\ reqs[q].op = "end" /\ reqs[q].pc = "findCycle"
  /\ LET r == [reqs[q] EXCEPT !.cycleId = cycleId]
         cycle == CycleFindOne(cycles, r.cycleId) IN
     IF cycle = NoCycle
     THEN Return(q, r, 404, "Cycle not found", 0, FALSE)
     ELSE IF r.activeRide.cycleId = NULL
     THEN Return(q, r, 500, "Server error while ending ride", 0, FALSE)
     ELSE IF ~CycleMatchesRide(r.activeRide, cycle)
     THEN Return(q, r, 400, "Cycle does not match your active ride", 0, FALSE)
     ELSE Await(q, [r EXCEPT !.cycle = cycle, !.pc = "findStation"])
  /\ UNCHANGED <<rides, cycles, stations, now, served>>

EndFindStation(q, stationId) ==
  /\ reqs[q].op = "end" /\ reqs[q].pc = "findStation"
  /\ LET r == [reqs[q] EXCEPT !.stationId = stationId] IN
     IF StationFindById(stations, r.stationId) = NULL
     THEN Return(q, r, 404, "Station not found", 0, FALSE)
     ELSE Await(q, [r EXCEPT !.pc = "updateRide"])
  /\ UNCHANGED <<rides, cycles, stations, now, served>>

\* Ride.findByIdAndUpdate(req.activeRide._id, { endTime, endStation, status,
\* feedback })
EndUpdateRide(q, date, rating) ==
  /\ reqs[q].op = "end" /\ reqs[q].pc = "updateRide"
  /\ LET r == [reqs[q] EXCEPT !.feedback = rating] IN
     /\ rides' = RideEndUpdate(rides, r.activeRide._id, date, r.stationId,
                               r.feedback)
     /\ Await(q, [r EXCEPT !.ride = r.activeRide._id,
                           !.pc = "saveCycle"])
  /\ now' = date
  /\ UNCHANGED <<cycles, stations, served>>

\* cycle.updateStatus('available'), then the 200 response.
EndSaveCycle(q) ==
  /\ reqs[q].op = "end" /\ reqs[q].pc = "saveCycle"
  /\ LET r == reqs[q] IN
     IF CycleSaveFails(cycles, r.cycle)
     THEN /\ Return(q, r, 500, "Server error while ending ride", 0, FALSE)
          /\ UNCHANGED cycles
     ELSE /\ cycles' = updateStatus(cycles, r.cycle, "available")
          /\ Return(q, r, 200, "Ride ended successfully", r.ride, TRUE)
  /\ UNCHANGED <<rides, stations, now, served>>

\* ---------------------------------------------------- POST /api/rides/cancel
\* if (!req.activeRide)
CancelNoActiveRide(r) == r.activeRide = NoRide

\* Mutant of CancelRideRequest: a ride whose cycle is gone is not cancelled.
CancelRideRequest_NeedsCycle(q, userId) ==
  /\ AcceptIn(q)
  /\ LET r == NewReq("cancel", "updateRide", userId, NULL, NULL, NoRating,
                     NULL, checkActiveRide(userId)) IN
     IF CancelNoActiveRide(r)
     THEN Return(q, r, 400, "No active ride to cancel", 0, FALSE)
     ELSE IF r.activeRide.cycleId = NULL
     THEN Return(q, r, 404, "Cycle not found", 0, FALSE)
     ELSE Await(q, r)
  /\ UNCHANGED <<rides, cycles, stations, now>>

\* protect, checkActiveRide, the active-ride check.
CancelRideRequest(q, userId) ==
  /\ AcceptIn(q)
  /\ LET r == NewReq("cancel", "updateRide", userId, NULL, NULL, NoRating,
                     NULL, checkActiveRide(userId)) IN
     IF CancelNoActiveRide(r)
     THEN Return(q, r, 400, "No active ride to cancel", 0, FALSE)
     ELSE Await(q, r)
  /\ UNCHANGED <<rides, cycles, stations, now>>

\* Ride.findByIdAndUpdate(req.activeRide._id, { endTime, status })
CancelUpdateRide(q, date) ==
  /\ reqs[q].op = "cancel" /\ reqs[q].pc = "updateRide"
  /\ LET r == reqs[q] IN
     /\ rides' = RideCancelUpdate(rides, r.activeRide._id, date)
     /\ Await(q, [r EXCEPT !.ride = r.activeRide._id,
                           !.pc = "updateCycle"])
  /\ now' = date
  /\ UNCHANGED <<cycles, stations, served>>

\* Cycle.findByIdAndUpdate(req.activeRide.cycleId, { status: 'available' }),
\* then the 200 response.
CancelUpdateCycle(q) ==
  /\ reqs[q].op = "cancel" /\ reqs[q].pc = "updateCycle"
  /\ LET r == reqs[q] IN
     /\ cycles' = CycleUpdateById(cycles, r.activeRide.cycleId, "status",
                                  "available")
     /\ Return(q, r, 200, "Ride cancelled successfully", r.ride,
               r.activeRide.cycleId # NULL /\ cycles[r.activeRide.cycleId].exists)
  /\ UNCHANGED <<rides, stations, now, served>>

\* ----------------------------------------------------- GET /api/rides/active
\* Mutant of GetActiveRide: a rider without an active ride is answered 404.
GetActiveRide_NotFound(userId) ==
  /\ Accept
  /\ LET r == NewReq("active", "idle", userId, NULL, NULL, NoRating, NULL,
                     checkActiveRide(userId)) IN
     response' = IF r.activeRide = NoRide
                 THEN Respond(r, 404, "No active ride", 0, FALSE)
                 ELSE Respond(r, 200, NULL, r.activeRide._id, FALSE)
  /\ UNCHANGED <<rides, cycles, stations, now, reqs>>

\* if (!req.activeRide) res.json({ success: true, data: null, ... }); else
\* res.json({ success: true, data: req.activeRide })
GetActiveRide(userId) ==
  /\ Accept
  /\ LET r == NewReq("active", "idle", userId, NULL, NULL, NoRating, NULL,
                     checkActiveRide(userId)) IN
     response' = IF r.activeRide = NoRide
                 THEN Respond(r, 200, "No active ride", 0, FALSE)
                 ELSE Respond(r, 200, NULL, r.activeRide._id, FALSE)
  /\ UNCHANGED <<rides, cycles, stations, now, reqs>>

\* ------------------------------------------------------------- statistics
MinutesPerHour == 60
CostRate == 1         \* Ride cost, getUserStats: $1 per hour
RevenueRate == 10     \* dashboard, analytics, report: 10 per hour
AnalyticsDays == 7    \* GET /analytics/rides: the default period
MsPerDay == 24 * 60 * MsPerMinute

\* Math.ceil of a non-negative quotient n/d.
MathCeil(n, d) == (n + d - 1) \div d

\* The sum of the durations of the rides S of the collection rs.
RECURSIVE SumDuration(_, _)
SumDuration(rs, S) ==
  IF S = {} THEN 0
  ELSE LET i == CHOOSE i \in S : TRUE IN
       rs[i].duration + SumDuration(rs, S \ {i})

\* rideSchema.virtual('cost'): hours rounded up, at the cost rate.
cost(ride) ==
  IF ride.duration = 0 THEN 0
  ELSE MathCeil(ride.duration, MinutesPerHour) * CostRate

\* { $sum: { $multiply: [{ $ceil: { $divide: ['$duration', 60] } }, 1] } }
RECURSIVE SumCeilHours(_, _)
SumCeilHours(rs, S) ==
  IF S = {} THEN 0
  ELSE LET i == CHOOSE i \in S : TRUE IN
       MathCeil(rs[i].duration, MinutesPerHour) * CostRate
         + SumCeilHours(rs, S \ {i})

\* Mutant of getUserStats: the $match without the status.
getUserStats_AnyStatus(rs, userId) ==
  LET S == {i \in 1..Len(rs) : rs[i].userId = userId} IN
  IF S = {} THEN << >>
  ELSE << [ totalRides |-> Cardinality(S),
            totalDuration |-> SumDuration(rs, S),
            totalCost |-> SumCeilHours(rs, S) ] >>

\* Ride.getUserStats(userId): $match { userId, status: 'completed' }, then
\* one $group; the result array is empty when nothing matches.
getUserStats(rs, userId) ==
  LET S == {i \in 1..Len(rs) :
              rs[i].userId = userId /\ rs[i].status = "completed"} IN
  IF S = {} THEN << >>
  ELSE << [ totalRides |-> Cardinality(S),
            totalDuration |-> SumDuration(rs, S),
            totalCost |-> SumCeilHours(rs, S) ] >>

\* A query of a statistics handler rejects: the catch block answers 500.
StatsFails(ok) ==
  /\ ~ok => served.failed < MaxFailures
  /\ served' = [served EXCEPT !.requests = @ + 1,
                              !.failed = IF ok THEN @ ELSE @ + 1]

\* protect (middleware/auth): req.user is the authenticated requester.
protect(requester) == requester

\* A GET request of the users router: req.user as protect sets it,
\* req.params.id the :id of the path.
UserReq(op, requester, id) ==
  [ NewReq(op, "idle", protect(requester), NULL, NULL, NoRating, NULL, NoRide)
      EXCEPT !.id = id ]

\* Mutant of Forbidden: nobody is refused.
Forbidden_Never(requester, id) == FALSE

\* req.user.role !== 'admin' && req.user._id.toString() !== req.params.id
Forbidden(requester, id) == requester # "admin" /\ requester # id

\* An :id that casts to an ObjectId; a query by any other string rejects
\* (CastError).
ValidId(id) == id \in Users

\* GET /api/users/:id: the authorization check, then User.findById.
GetUser(requester, id, ok) ==
  /\ served.requests < MaxRequests
  /\ StatsFails((ok /\ ValidId(id)) \/ Forbidden(requester, id))
  /\ LET r == UserReq("getUser", requester, id) IN
     response' =
       IF Forbidden(requester, id)
       THEN Respond(r, 403, "Not authorized to access this user profile",
                    0, FALSE)
       ELSE IF ~(ok /\ ValidId(id))
       THEN Respond(r, 500, "Server error while fetching user", 0, FALSE)
       ELSE Respond(r, 200, NULL, [ user |-> id ], FALSE)
  /\ UNCHANGED <<rides, cycles, stations, now, reqs>>

\* GET /api/users/:id/rides: the authorization check, then the completed
\* rides of the user (first page) and their count.
GetUserRides(requester, id, ok) ==
  /\ served.requests < MaxRequests
  /\ StatsFails(ok \/ Forbidden(requester, id))
  /\ LET r == UserReq("userRides", requester, id)
         S == {i \in 1..Len(rides) :
                 rides[i].userId = id /\ rides[i].status = "completed"} IN
     response' =
       IF Forbidden(requester, id)
       THEN Respond(r, 403, "Not authorized to access this user's rides",
                    0, FALSE)
       ELSE IF ~ok
       THEN Respond(r, 500, "Server error while fetching user rides", 0, FALSE)
       ELSE Respond(r, 200, NULL, [ rides |-> S, total |-> Cardinality(S) ],
                    FALSE)
  /\ UNCHANGED <<rides, cycles, stations, now, reqs>>

\* GET /api/users/:id/stats: a rider reads the own statistics only; stats[0]
\* or zeros, then avgDuration = Math.round(totalDuration / totalRides).
UserStats(requester, id, ok) ==
  /\ served.requests < MaxRequests
  /\ StatsFails(ok \/ Forbidden(requester, id))
  /\ LET r == UserReq("userStats", requester, id)
         stats == getUserStats(rides, id)
         result == IF stats # << >> THEN stats[1]
                   ELSE [ totalRides |-> 0, totalDuration |-> 0, totalCost |-> 0 ]
         avgDuration == IF result.totalRides > 0
                        THEN MathRound(result.totalDuration, result.totalRides)
                        ELSE 0 IN
     response' =
       IF Forbidden(requester, id)
       THEN Respond(r, 403, "Not authorized to access this user's statistics",
                    0, FALSE)
       ELSE IF ~ok
       THEN Respond(r, 500, "Server error while fetching user statistics",
                    0, FALSE)
       ELSE Respond(r, 200, NULL,
                    [ user |-> id,
                      stats |-> [ totalRides |-> result.totalRides,
                                  totalDuration |-> result.totalDuration,
                                  totalCost |-> result.totalCost,
                                  avgDuration |-> avgDuration ] ], FALSE)
  /\ UNCHANGED <<rides, cycles, stations, now, reqs>>

\* GET /api/users/stats (administrator): counts of the user collection.
UsersStats(requester, ok) ==
  /\ served.requests < MaxRequests
  /\ StatsFails(ok \/ requester # "admin")
  /\ LET r == UserReq("usersStats", requester, NULL) IN
     response' =
       IF requester # "admin"
       THEN Respond(r, 403, "Not authorized", 0, FALSE)
       ELSE IF ~ok
       THEN Respond(r, 500, "Server error while fetching users statistics",
                    0, FALSE)
       ELSE Respond(r, 200, NULL,
                    [ totalUsers |-> Cardinality(Users \cup {"admin"}),
                      adminUsers |-> 1 ], FALSE)
  /\ UNCHANGED <<rides, cycles, stations, now, reqs>>

\* GET /api/stations/:id (public): Station.findById.
GetStation(id, ok) ==
  /\ served.requests < MaxRequests
  /\ StatsFails(ok /\ id \in StationDocs)
  /\ LET r == UserReq("getStation", NULL, id) IN
     response' =
       IF ~(ok /\ id \in StationDocs)
       THEN Respond(r, 500, "Server error while fetching station", 0, FALSE)
       ELSE IF StationFindById(stations, id) = NULL
       THEN Respond(r, 404, "Station not found", 0, FALSE)
       ELSE Respond(r, 200, NULL, [ station |-> id ], FALSE)
  /\ UNCHANGED <<rides, cycles, stations, now, reqs>>

\* GET /api/stations/stats (public): counts of stations and cycles.
StationsStats(ok) ==
  /\ served.requests < MaxRequests
  /\ StatsFails(ok)
  /\ LET r == UserReq("stationsStats", NULL, NULL) IN
     response' =
       IF ~ok
       THEN Respond(r, 500, "Error fetching station statistics", 0, FALSE)
       ELSE Respond(r, 200, NULL,
                    [ totalStations |->
                        Cardinality({x \in StationDocs : stations[x].exists}),
                      totalCycles |->
                        Cardinality({c \in CycleDocs : cycles[c].exists}) ],
                    FALSE)
  /\ UNCHANGED <<rides, cycles, stations, now, reqs>>

\* GET /api/rides/stats: three counts over the whole collection; the filter
\* { endTime: { $exists: true } } matches every document that stores the
\* field, null included.
RidesStatsData(rs) ==
  [ activeRides |-> Cardinality({i \in 1..Len(rs) : rs[i].endTime = NullDate}),
    totalRides |-> Len(rs),
    completedRides |->
      Cardinality({i \in 1..Len(rs) : "endTime" \in DOMAIN rs[i]}) ]

RidesStats(userId, ok) ==
  /\ served.requests < MaxRequests
  /\ StatsFails(ok)
  /\ LET r == NewReq("ridesStats", "idle", userId, NULL, NULL, NoRating,
                     NULL, NoRide) IN
     response' =
       IF ~ok
       THEN Respond(r, 500, "Server error while fetching rides statistics",
                    0, FALSE)
       ELSE Respond(r, 200, NULL, RidesStatsData(rides), FALSE)
  /\ UNCHANGED <<rides, cycles, stations, now, reqs>>

\* ------------------------------------------------------------- dispatch
\* The GET routes of the users router and of the stations router, in the
\* order of their registration; a path is the sequence of its segments.
UsersRouter ==
  << [ path |-> << >>,             handler |-> "listUsers" ],
     [ path |-> <<":id">>,          handler |-> "getUser" ],
     [ path |-> <<":id", "rides">>, handler |-> "userRides" ],
     [ path |-> <<":id", "stats">>, handler |-> "userStats" ],
     [ path |-> <<"stats">>,        handler |-> "usersStats" ] >>

StationsRouter ==
  << [ path |-> << >>,             handler |-> "listStations" ],
     [ path |-> <<":id">>,          handler |-> "getStation" ],
     [ path |-> <<"stats">>,        handler |-> "stationsStats" ],
     [ path |-> <<":id", "stats">>, handler |-> "stationStats" ] >>

\* A route matches a path of as many segments, each equal to the route's
\* segment unless that is a parameter, which takes any segment.
Matches(route, path) ==
  /\ Len(route) = Len(path)
  /\ \A k \in 1..Len(route) : route[k] = ":id" \/ route[k] = path[k]

\* The handler that answers: that of the first route that matches.
Dispatch(router, path) ==
  LET hits == {k \in 1..Len(router) : Matches(router[k].path, path)} IN
  IF hits = {} THEN "notFound" ELSE router[Min(hits)].handler

\* The paths requested.
UsersPaths ==
  {<<"stats">>} \cup UNION {{<<u>>, <<u, "rides">>, <<u, "stats">>} : u \in Users}

StationsPaths == {<<"stats">>} \cup {<<x>> : x \in StationDocs}

\* GET /api/users/<path> by a requester.
UsersGet(requester, path, ok) ==
  LET handler == Dispatch(UsersRouter, path) IN
  CASE handler = "getUser"    -> GetUser(requester, path[1], ok)
    [] handler = "userRides"  -> GetUserRides(requester, path[1], ok)
    [] handler = "userStats"  -> UserStats(requester, path[1], ok)
    [] handler = "usersStats" -> UsersStats(requester, ok)
    [] OTHER                  -> FALSE

\* GET /api/stations/<path>.
StationsGet(path, ok) ==
  LET handler == Dispatch(StationsRouter, path) IN
  CASE handler = "getStation"    -> GetStation(path[1], ok)
    [] handler = "stationsStats" -> StationsStats(ok)
    [] OTHER                     -> FALSE

\* rides.reduce((sum, ride) => sum + (ride.duration || 0) / 60 * 10, 0), then
\* Math.round(totalRevenue * 100) / 100: the revenue, in hundredths.
totalRevenue(rs, S) ==
  MathRound(100 * RevenueRate * SumDuration(rs, S), MinutesPerHour)

\* GET /api/admin/dashboard: revenue over Ride.find({ endTime: { $exists:
\* true } }), that is every ride that stores the field.
Dashboard(ok) ==
  /\ served.requests < MaxRequests
  /\ StatsFails(ok)
  /\ LET r == NewReq("dashboard", "idle", "admin", NULL, NULL, NoRating,
                     NULL, NoRide)
         S == {i \in 1..Len(rides) : "endTime" \in DOMAIN rides[i]} IN
     response' =
       IF ~ok THEN Respond(r, 500, "Error fetching dashboard data", 0, FALSE)
       ELSE Respond(r, 200, NULL,
                    [ rides |-> S,
                      totalRides |-> Len(rides),
                      activeRides |->
                        Cardinality({i \in 1..Len(rides) :
                                       rides[i].endTime = NullDate}),
                      totalRevenue |-> totalRevenue(rides, S) ], FALSE)
  /\ UNCHANGED <<rides, cycles, stations, now, reqs>>

\* GET /api/admin/analytics/rides: the rides started in the period.
Analytics(ok) ==
  /\ served.requests < MaxRequests
  /\ StatsFails(ok)
  /\ LET r == NewReq("analytics", "idle", "admin", NULL, NULL, NoRating,
                     NULL, NoRide)
         S == {i \in 1..Len(rides) :
                 rides[i].startTime >= now - AnalyticsDays * MsPerDay} IN
     response' =
       IF ~ok THEN Respond(r, 500, "Error fetching ride analytics", 0, FALSE)
       ELSE Respond(r, 200, NULL,
                    [ rides |-> S,
                      totalRides |-> Cardinality(S),
                      totalDuration |-> SumDuration(rides, S),
                      totalRevenue |-> totalRevenue(rides, S),
                      averageDuration |->
                        IF S # {} THEN MathRound(SumDuration(rides, S),
                                                 Cardinality(S))
                        ELSE 0 ], FALSE)
  /\ UNCHANGED <<rides, cycles, stations, now, reqs>>

\* GET /api/admin/reports/comprehensive without dates: every ride.  The
\* schema has no path user, so ride.user is undefined and the reduce that
\* reads ride.user._id throws as soon as there is a ride.
Report(ok) ==
  /\ served.requests < MaxRequests
  /\ StatsFails(ok)
  /\ LET r == NewReq("report", "idle", "admin", NULL, NULL, NoRating,
                     NULL, NoRide)
         S == 1..Len(rides) IN
     response' =
       IF ~ok \/ S # {}
       THEN Respond(r, 500, "Error generating report", 0, FALSE)
       ELSE Respond(r, 200, NULL,
                    [ rides |-> S,
                      totalRides |-> Len(rides),
                      totalRevenue |-> totalRevenue(rides, S) ], FALSE)
  /\ UNCHANGED <<rides, cycles, stations, now, reqs>>

\* A store operation a handler awaits rejects (connection lost, timeout):
\* the catch block answers 500; nothing that was written is reverted.
ServerError(op) ==
  CASE op = "start"  -> "Server error while starting ride"
    [] op = "end"    -> "Server error while ending ride"
    [] op = "cancel" -> "Server error while cancelling ride"
    [] OTHER         -> "Server error while updating cycle status"

StoreFailure(q) ==
  /\ ~Free(q)
  /\ served.failed < MaxFailures
  /\ served' = [served EXCEPT !.failed = @ + 1]
  /\ Return(q, reqs[q], 500, ServerError(reqs[q].op), 0, FALSE)
  /\ UNCHANGED <<rides, cycles, stations, now>>

\* ------------------------------------------- administrator: cycles, stations
\* No document: a cycle that was deleted, or one not created yet.
DeletedCycle == [ exists |-> FALSE, status |-> "available", isActive |-> FALSE ]

AdminReq(op, cycleId, newStatus) ==
  NewReq(op, "idle", "admin", cycleId, NULL, NoRating, newStatus, NoRide)

\* PATCH /api/cycles/:id/status: Cycle.findById ...
PatchStatusRequest(q, id, status) ==
  /\ AcceptIn(q)
  /\ LET r == [AdminReq("patchStatus", id, status) EXCEPT !.pc = "saveCycle"]
         cycle == CycleFindById(cycles, id) IN
     IF cycle = NoCycle
     THEN Return(q, r, 404, "Cycle not found", 0, FALSE)
     ELSE Await(q, [r EXCEPT !.cycle = cycle])
  /\ UNCHANGED <<rides, cycles, stations, now>>

\* ... cycle.status = req.body.status; cycle.save()
PatchStatusSave(q) ==
  /\ reqs[q].op = "patchStatus" /\ reqs[q].pc = "saveCycle"
  /\ LET r == reqs[q] IN
     IF CycleSaveFails(cycles, r.cycle)
     THEN /\ Return(q, r, 500, "Server error while updating cycle status", 0, FALSE)
          /\ UNCHANGED cycles
     ELSE /\ cycles' = CycleSave(cycles, r.cycle, r.newStatus)
          /\ Return(q, r, 200, NULL, 0, TRUE)
  /\ UNCHANGED <<rides, stations, now, served>>

\* PUT /api/cycles/:id and PUT /api/admin/cycles/:id with { status }:
\* Cycle.findByIdAndUpdate(req.params.id, req.body)
PutCycle(id, status) ==
  /\ Accept
  /\ cycles' = CycleUpdateById(cycles, id, "status", status)
  /\ response' = Respond(AdminReq("putCycle", id, status),
                         IF cycles[id].exists THEN 200 ELSE 404,
                         NULL, 0, cycles[id].exists)
  /\ UNCHANGED <<rides, stations, now, reqs>>

\* The status field of a request body: absent, or any value of the enum.
StatusInputs == CycleStatus \cup {NULL}

\* A new Cycle document: status takes the schema default when not given.
NewCycle(status) ==
  [ exists |-> TRUE, isActive |-> TRUE,
    status |-> IF status = NULL THEN "available" ELSE status ]

\* POST /api/cycles with a cycleId no document has and stationId s1: the
\* station check, then Cycle.create(req.body), the whole body.
CreateCycle(id, status) ==
  /\ Accept
  /\ ~cycles[id].exists
  /\ LET r == AdminReq("createCycle", id, status) IN
     IF StationFindById(stations, "s1") = NULL
     THEN /\ response' = Respond(r, 400, "Station not found", 0, FALSE)
          /\ UNCHANGED cycles
     ELSE /\ cycles' = [cycles EXCEPT ![id] = NewCycle(status)]
          /\ response' = Respond(r, 201, NULL, 0, TRUE)
  /\ UNCHANGED <<rides, stations, now, reqs>>

\* POST /api/admin/cycles: new Cycle({ cycleId, model, color, condition,
\* stationId }).save(); the other fields of the body are not read.
AdminCreateCycle(id, status) ==
  /\ Accept
  /\ ~cycles[id].exists
  /\ cycles' = [cycles EXCEPT ![id] = NewCycle(NULL)]
  /\ response' = Respond(AdminReq("adminCreateCycle", id, status), 201, NULL,
                         0, TRUE)
  /\ UNCHANGED <<rides, stations, now, reqs>>

\* DELETE /api/cycles/:id: Cycle.findByIdAndUpdate(id, { isActive: false })
DeleteCycle(id) ==
  /\ Accept
  /\ cycles' = CycleUpdateById(cycles, id, "isActive", FALSE)
  /\ response' = Respond(AdminReq("deleteCycle", id, NULL),
                         IF cycles[id].exists THEN 200 ELSE 404,
                         NULL, 0, cycles[id].exists)
  /\ UNCHANGED <<rides, stations, now, reqs>>

\* DELETE /api/admin/cycles/:id: Cycle.findByIdAndDelete(id)
AdminDeleteCycle(id) ==
  /\ Accept
  /\ cycles' = [cycles EXCEPT ![id] = DeletedCycle]
  /\ response' = Respond(AdminReq("adminDeleteCycle", id, NULL),
                         IF cycles[id].exists THEN 200 ELSE 404,
                         NULL, 0, cycles[id].exists)
  /\ UNCHANGED <<rides, stations, now, reqs>>

\* DELETE /api/admin/stations/:id: Station.findByIdAndDelete(id)
AdminDeleteStation(id) ==
  /\ Accept
  /\ stations' = [stations EXCEPT ![id].exists = FALSE]
  /\ response' = Respond(AdminReq("adminDeleteStation", id, NULL),
                         IF stations[id].exists THEN 200 ELSE 404,
                         NULL, 0, FALSE)
  /\ UNCHANGED <<rides, cycles, now, reqs>>

\* ------------------------------------------------------------ the system
\* The seeded store: every cycle available and active, no rides.
Init ==
  /\ rides = << >>
  /\ cycles = [c \in CycleDocs |->
                 IF c \in NewCycleDocs THEN DeletedCycle
                 ELSE [ exists |-> TRUE, status |-> "available",
                        isActive |-> TRUE ]]
  /\ stations = [s \in StationDocs |-> [ exists |-> TRUE ]]
  /\ now = 0
  /\ reqs = [q \in Reqs |-> IdleReq]
  /\ served = [ requests |-> 0, failed |-> 0 ]
  /\ response = NoResponse

RiderRequest ==
  \E q \in Reqs, u \in Users :
    \/ \E valid \in BOOLEAN : StartRideRequest(q, u, valid)
    \/ \E valid \in BOOLEAN : EndRideRequest(q, u, valid)
    \/ CancelRideRequest(q, u)

RiderStep ==
  \E q \in Reqs :
    \/ \E c \in CycleIdInputs : StartFindCycle(q, c)
    \/ \E s \in StationIdInputs : StartFindStation(q, s)
    \/ \E date \in NewDate : StartCreateRide(q, date)
    \/ StartSaveCycle(q)
    \/ \E c \in CycleIdInputs : EndFindCycle(q, c)
    \/ \E s \in StationIdInputs : EndFindStation(q, s)
    \/ \E date \in NewDate, f \in RatingInputs : EndUpdateRide(q, date, f)
    \/ EndSaveCycle(q)
    \/ \E date \in NewDate : CancelUpdateRide(q, date)
    \/ CancelUpdateCycle(q)

RiderRead ==
  \E u \in Users :
    \/ GetActiveRide(u)
    \/ \E ok \in BOOLEAN : RidesStats(u, ok)

AdminStep ==
  \/ \E q \in Reqs, c \in AdminCycleInputs, st \in CycleStatus :
       PatchStatusRequest(q, c, st)
  \/ \E q \in Reqs : PatchStatusSave(q)
  \/ \E c \in AdminCycleInputs, st \in CycleStatus : PutCycle(c, st)
  \/ \E c \in NewCycleDocs, st \in StatusInputs : CreateCycle(c, st)
  \/ \E c \in NewCycleDocs, st \in StatusInputs : AdminCreateCycle(c, st)
  \/ \E c \in AdminCycleInputs : DeleteCycle(c)
  \/ \E c \in AdminCycleInputs : AdminDeleteCycle(c)
  \/ \E s \in AdminStationInputs : AdminDeleteStation(s)

Failure == \E q \in Reqs : StoreFailure(q)

Next == RiderRequest \/ RiderStep \/ RiderRead \/ AdminStep \/ Failure

Spec == Init /\ [][Next]_vars

\* Riders only: concurrent start, end and cancel requests, no administrator
\* and no store failure.
NextRiders == RiderRequest \/ RiderStep \/ RiderRead

SpecRiders == Init /\ [][NextRiders]_vars

\* Requests processed one at a time: a rider's request comes in only when no
\* handler is running; no administrator, no store failure.
Quiescent == \A q \in Reqs : Free(q)

SerialRequest == Quiescent /\ RiderRequest

NextSerial == SerialRequest \/ RiderStep

SpecSerial == Init /\ [][NextSerial]_vars

\* Statistics: the handlers that only read, over any ride collection the
\* schema allows whose finished rides carry the duration the save hook
\* computes from their two timestamps.
MaxStatRides == 2    \* ride documents in the collection
StatDurations == {0, 30, 45, 90}
MaxStatDuration == 90

StatRides ==
  { [ NewRide(u, "c1", "s1", 0) EXCEPT
        !.status = st, !.duration = d,
        !.endTime = IF st = "active" THEN NullDate ELSE d * MsPerMinute,
        !.endStation = IF st = "completed" THEN "s1" ELSE NULL ] :
      u \in Users, st \in {"active", "completed", "cancelled"},
      d \in StatDurations }

InitStats ==
  /\ rides \in UNION {[1..n -> {r \in StatRides :
                                  r.status = "active" => r.duration = 0}] :
                        n \in 0..MaxStatRides}
  /\ cycles = [c \in CycleDocs |->
                 IF c \in NewCycleDocs THEN DeletedCycle
                 ELSE [ exists |-> TRUE, status |-> "available",
                        isActive |-> TRUE ]]
  /\ stations = [s \in StationDocs |-> [ exists |-> TRUE ]]
  /\ now = MaxStatDuration * MsPerMinute
  /\ reqs = [q \in Reqs |-> IdleReq]
  /\ served = [ requests |-> 0, failed |-> 0 ]
  /\ response = NoResponse

NextStats ==
  \/ \E u \in Users \cup {"admin"}, path \in UsersPaths, ok \in BOOLEAN :
       UsersGet(u, path, ok)
  \/ \E path \in StationsPaths, ok \in BOOLEAN : StationsGet(path, ok)
  \/ \E u \in Users, ok \in BOOLEAN : RidesStats(u, ok)
  \/ \E ok \in BOOLEAN : Dashboard(ok)
  \/ \E ok \in BOOLEAN : Analytics(ok)
  \/ \E ok \in BOOLEAN : Report(ok)

SpecStats == InitStats /\ [][NextStats]_vars

\* ================================================================ claims
RideOps == {"start", "end", "cancel"}
RideIds == 1..Len(rides)
ActiveRidesOfRider(u) ==
  {i \in RideIds : rides[i].userId = u /\ rides[i].status = "active"}
ActiveRidesOfCycle(c) ==
  {i \in RideIds : rides[i].cycleId = c /\ rides[i].status = "active"}

\* C1: in every reachable state, under any interleaving of concurrent start,
\* end and cancel requests, each rider has at most one ride with status
\* active.  (Violated: two start requests of one rider both pass the
\* active-ride lookup before either creates its ride.)
C1_OneActiveRidePerRider ==
  \A u \in Users : Cardinality(ActiveRidesOfRider(u)) <= 1

\* C2: in every reachable state a cycle's status is in-use if and only if
\* some ride with status active references that cycle.  (Violated: the two
\* writes of a ride operation are separate, and the administrator's status
\* updates take no account of rides.)
C2_InUseIffActiveRide ==
  \A c \in CycleDocs :
    cycles[c].exists =>
      (cycles[c].status = "in-use" <=> ActiveRidesOfCycle(c) # {})

\* C3: when two different riders start a ride on the same available cycle
\* concurrently, in no interleaving do both succeed: no cycle is ever
\* referenced by the active rides of two riders.  (Violated: both requests read the cycle as available before
\* either marks it in-use.)
C3_OneActiveRidePerCycle ==
  \A c \in CycleDocs : \A i, j \in ActiveRidesOfCycle(c) :
    rides[i].userId # rides[j].userId => i = j

\* C4: a ride operation that has answered and whose ride write was applied
\* has its paired cycle-status write applied too; a failure of the second
\* write does not leave the first visible.  (Violated: nothing reverts the
\* ride write when the cycle write fails.)
C4_WritesPaired ==
  (response.op \in RideOps /\ response.ride # 0) => response.wroteCycle

\* C5: once a ride is completed or cancelled, none of its fields changes
\* again.  (Violated: end and cancel of one rider, both admitted while the
\* ride was active, each update the ride by its id.)
C5_TerminalRidesImmutable ==
  [][\A i \in RideIds :
       rides[i].status \in {"completed", "cancelled"} => rides'[i] = rides[i]]_vars

\* C6: for every completed ride the stored duration equals
\* round((endTime - startTime) / 60000) minutes.  (Violated: ending a ride is
\* an update query, which does not run the pre('save') hook that computes the
\* duration.)
C6_DurationLaw ==
  \A i \in RideIds :
    rides[i].status = "completed" =>
      rides[i].duration =
        MathRound(rides[i].endTime - rides[i].startTime, MsPerMinute)

\* C7: when a start request answers 201, exactly one active ride exists for
\* the rider, it is the ride returned, it references the resolved cycle and
\* the given station, the cycle is in-use, and the rider's active-ride lookup
\* returns that ride.  (Violated by the races of C1 and C4.)
C7_StartEstablishesRide ==
  (response.op = "start" /\ response.status = 201) =>
    LET ride == response.data IN
    /\ ActiveRidesOfRider(response.user) = {ride}
    /\ ExternalId(rides[ride].cycleId) = response.cycleId
    /\ rides[ride].startStation = response.stationId
    /\ cycles[rides[ride].cycleId].status = "in-use"
    /\ findActiveRide(rides, cycles, response.user)._id = ride

\* A request by rider u for operation op comes in with this step: it is
\* answered at once or its handler takes a slot.
Arrives(op, u) ==
  /\ served'.requests = served.requests + 1
  /\ \/ reqs' = reqs /\ response'.op = op /\ response'.user = u
     \/ \E q \in Reqs : Free(q) /\ reqs'[q].op = op /\ reqs'[q].user = u

\* The handler in slot q runs one step (its store operation did not fail).
StepOf(q) == reqs'[q] # reqs[q] /\ ~Free(q) /\ served'.failed = served.failed

\* The handler in slot q answers with this step, having written nothing.
Rejects(q, code, message) ==
  /\ reqs'[q] = IdleReq
  /\ response'.status = code /\ response'.message = message
  /\ response'.ride = 0 /\ ~response'.wroteCycle
  /\ rides' = rides /\ cycles' = cycles /\ stations' = stations

\* The body field a handler reads in this step.
CycleIdRead(q) ==
  IF reqs'[q] = IdleReq THEN response'.cycleId ELSE reqs'[q].cycleId
StationIdRead(q) ==
  IF reqs'[q] = IdleReq THEN response'.stationId ELSE reqs'[q].stationId

\* The cycles a QR identifier resolves to: not deleted, the flag isActive set.
Resolves(cycleId) ==
  {c \in CycleDocs : cycles[c].exists /\ cycles[c].isActive
                      /\ ExternalId(c) = cycleId}

\* C8: a start request of a rider who has an active ride is answered 400 (the
\* conflict message when the body is valid) and changes no ride, no cycle and
\* no station, and its handler does not go on to name any cycle.
C8_ConflictRejected ==
  [][\A u \in Users :
       (Arrives("start", u) /\ ActiveRidesOfRider(u) # {}) =>
         /\ reqs' = reqs
         /\ response'.op = "start" /\ response'.status = 400
         /\ response'.valid => response'.message = "You already have an active ride"
         /\ response'.ride = 0 /\ ~response'.wroteCycle
         /\ rides' = rides /\ cycles' = cycles /\ stations' = stations]_vars

\* A rider with an active ride was refused a second start.
C8_Witness ==
  /\ response.op = "start" /\ response.status = 400
  /\ response.message = "You already have an active ride"
  /\ ActiveRidesOfRider(response.user) # {}

C10_WrongCycleRejected ==
  [][\A q \in Reqs :
       (reqs[q].op = "end" /\ reqs[q].pc = "findCycle" /\ StepOf(q)) =>
         ((Resolves(CycleIdRead(q)) # {}
            /\ rides[reqs[q].activeRide._id].cycleId \notin Resolves(CycleIdRead(q)))
           => Rejects(q, 400, "Cycle does not match your active ride"))]_vars

\* C11: an end or cancel request of a rider who has no active ride is answered
\* 400 (the no-active-ride message when the body is valid) in the step it
\* comes in, and creates or changes no ride, no cycle and no station.
C11_NoActiveRideRejected ==
  [][\A u \in Users : \A op \in {"end", "cancel"} :
       (Arrives(op, u) /\ ActiveRidesOfRider(u) = {}) =>
         /\ reqs' = reqs
         /\ response'.op = op /\ response'.status = 400
         /\ response'.valid =>
              response'.message = IF op = "end" THEN "No active ride found"
                                  ELSE "No active ride to cancel"
         /\ response'.ride = 0 /\ ~response'.wroteCycle
         /\ rides' = rides /\ cycles' = cycles /\ stations' = stations]_vars

\* A rider whose ride is over was refused an end request.
C11_Witness ==
  /\ response.op = "end" /\ response.status = 400
  /\ response.message = "No active ride found"
  /\ ActiveRidesOfRider(response.user) = {}
  /\ \E i \in RideIds : rides[i].userId = response.user

\* C12: when an end request answers 200, the ride it ended is completed with
\* its end timestamp set, its destination the station given and the feedback
\* given stored, the ride's cycle is available, and the rider has no active
\* ride.  (Violated: a cancel request admitted while the ride was active
\* rewrites the ride before the end request answers; see C5 and C1.)
C12_EndCompletesRide ==
  (response.op = "end" /\ response.status = 200) =>
    LET ride == rides[response.data] IN
    /\ ride.status = "completed"
    /\ ride.endTime # NullDate
    /\ ride.endStation = response.stationId
    /\ ride.feedback = response.feedback
    /\ cycles[ride.cycleId].status = "available"
    /\ ActiveRidesOfRider(response.user) = {}

\* C13: when a cancel request answers 200, the ride it cancelled is cancelled
\* with its end timestamp set and no destination station, the ride's cycle
\* is available, and the rider has no active ride.  (Violated: an end request
\* admitted while the ride was active rewrites the ride before the cancel
\* request answers; see C5 and C1.)
C13_CancelCancelsRide ==
  (response.op = "cancel" /\ response.status = 200) =>
    LET ride == rides[response.data] IN
    /\ ride.status = "cancelled"
    /\ ride.endTime # NullDate
    /\ ride.endStation = NULL
    /\ cycles[ride.cycleId].status = "available"
    /\ ActiveRidesOfRider(response.user) = {}

C15_AdminStatusKept ==
  [][\A q \in Reqs : \A c \in CycleDocs :
       (reqs[q].op \in {"end", "cancel"} /\ StepOf(q)
          /\ cycles[c].status \in {"maintenance", "out-of-service"}) =>
         cycles'[c].status = cycles[c].status]_vars

\* C16: a ride that is active stays active, and stays in the collection,
\* until an end or a cancel request of its own rider updates it: no step of
\* another rider's request, of the administrator or of the clock changes
\* the status of an active ride.
C16_ActiveUntilOwnRiderEnds ==
  [][/\ Len(rides') >= Len(rides)
     /\ \A i \in RideIds :
          (rides[i].status = "active" /\ rides'[i].status # "active") =>
            \E q \in Reqs :
              /\ reqs[q].op \in {"end", "cancel"} /\ reqs[q].pc = "updateRide"
              /\ reqs[q].user = rides[i].userId
              /\ StepOf(q)]_vars

\* A ride is active after another rider's ride was cancelled.
C16_Witness ==
  /\ response.op = "cancel" /\ response.status = 200
  /\ \E i \in RideIds :
       rides[i].status = "active" /\ rides[i].userId # response.user

\* The completed rides of a rider, and the sum of their cost fields.
CompletedRidesOf(u) ==
  {i \in RideIds : rides[i].userId = u /\ rides[i].status = "completed"}

RECURSIVE SumCost(_)
SumCost(S) ==
  IF S = {} THEN 0
  ELSE LET i == CHOOSE i \in S : TRUE IN cost(rides[i]) + SumCost(S \ {i})

\* The three sums of a rider's statistics are those of the rider's completed
\* rides.
StatsSums(st, S) ==
  /\ st.totalRides = Cardinality(S)
  /\ st.totalDuration = SumDuration(rides, S)
  /\ st.totalCost = SumCost(S)

CompletedOf(rs, u) ==
  {<<i, rs[i]>> : i \in {j \in 1..Len(rs) :
                           rs[j].userId = u /\ rs[j].status = "completed"}}

\* C18: what GET /api/rides/stats answers to a rider is derived from that
\* rider's completed rides only: a step that leaves them as they are leaves
\* the answer as it is.  (Violated: the handler counts the rides of the
\* whole collection.)
C18_RidesStatsOfRider ==
  [][\A u \in Users :
       CompletedOf(rides', u) = CompletedOf(rides, u) =>
         RidesStatsData(rides') = RidesStatsData(rides)]_vars

C20_CreatedAvailable ==
  [][\A c \in CycleDocs :
       (~cycles[c].exists /\ cycles'[c].exists) =>
         cycles'[c].status = "available"]_vars

\* C21: a delete is never a removal: a cycle or station document that exists
\* still exists after every step, so every reference to it still resolves.
\* (Violated: the two delete routes of the admin router remove the
\* document.)
C21_DeleteKeepsRecord ==
  [][/\ \A c \in CycleDocs : cycles[c].exists => cycles'[c].exists
     /\ \A s \in StationDocs : stations[s].exists => stations'[s].exists]_vars

\* C22: a requester who is not the administrator and is not the user of the
\* path is answered 403 with no data by GET /users/:id, /users/:id/rides
\* and /users/:id/stats, and never 500: the answer does not depend on any
\* query.
C22_OthersForbidden ==
  (response.op \in {"getUser", "userRides", "userStats"}
     /\ response.user # "admin" /\ response.user # response.id) =>
    response.status = 403 /\ response.data = 0

\* A rider asked for the statistics of another rider who has rides.
C22_Witness ==
  /\ response.op = "userStats" /\ response.status = 403
  /\ response.user \in Users /\ response.id \in Users
  /\ \E i \in RideIds : rides[i].userId = response.id

\* C23: with requests processed one at a time, every write succeeding and
\* riders' start, end and cancel only, whenever no request is running each
\* rider has at most one active ride, each cycle at most one, and a cycle
\* is in-use exactly when an active ride references it.
C23_SerialInvariants ==
  Quiescent =>
    /\ \A u \in Users : Cardinality(ActiveRidesOfRider(u)) <= 1
    /\ \A c \in CycleDocs : Cardinality(ActiveRidesOfCycle(c)) <= 1
    /\ \A c \in CycleDocs :
         cycles[c].exists =>
           (cycles[c].status = "in-use" <=> ActiveRidesOfCycle(c) # {})

\* Between two requests: one ride is over and another is active.
C23_Witness ==
  /\ Quiescent
  /\ \E i, j \in RideIds :
       rides[i].status = "completed" /\ rides[j].status = "active"

\* C24: a ride is completed only if its destination station is set, and a
\* cancelled or active ride has no destination station.  (Violated: a
\* cancel that updates a ride after an end of the same rider did leaves the
\* destination the end wrote.)
C24_DestinationIffCompleted ==
  \A i \in RideIds :
    /\ rides[i].status = "completed" => rides[i].endStation # NULL
    /\ rides[i].status \in {"cancelled", "active"} => rides[i].endStation = NULL

\* C25: a ride is active if and only if its end timestamp is null, so the
\* active-ride lookup (status and endTime) and a selection by endTime alone
\* pick the same rides.
C25_ActiveIffNoEndTime ==
  /\ \A i \in RideIds :
       rides[i].status = "active" <=> rides[i].endTime = NullDate
  /\ \A u \in Users : ActiveRideIds(rides, u) = ActiveRidesOfRider(u)
  /\ RidesStatsData(rides).activeRides =
       Cardinality({i \in RideIds : rides[i].status = "active"})

\* A ride that was cancelled after an end request had completed it.
C25_Witness ==
  \E j \in RideIds :
    /\ rides[j].status = "cancelled" /\ rides[j].endStation # NULL
    /\ rides[j].endTime # NullDate

\* C26: an end request of a rider whose ride is active, naming the external
\* identifier of that ride's cycle, passes the cycle lookup and goes on to
\* the station, also when the cycle was deactivated or deleted after the
\* ride started.  (Violated: the lookup wants isActive true, so the request
\* is answered 404 and the ride can no longer be ended.)
C26_EndFindsOwnCycle ==
  [][\A q \in Reqs :
       (/\ reqs[q].op = "end" /\ reqs[q].pc = "findCycle" /\ StepOf(q)
        /\ rides[reqs[q].activeRide._id].status = "active"
        /\ CycleIdRead(q) = ExternalId(rides[reqs[q].activeRide._id].cycleId))
         => reqs'[q].pc = "findStation"]_vars

\* C27: a cancel request of a rider who has an active ride is admitted, its
\* ride update leaves that ride cancelled and its cycle update is followed
\* by the answer 200, whatever the status or the active flag of the ride's
\* cycle and whether or not that cycle still exists (a store operation that
\* rejects aside).
C27_CancelSucceeds ==
  [][/\ \A u \in Users :
          (Arrives("cancel", u) /\ ActiveRidesOfRider(u) # {}) =>
            \E q \in Reqs :
              /\ Free(q) /\ reqs'[q].op = "cancel" /\ reqs'[q].user = u
              /\ reqs'[q].activeRide._id \in ActiveRidesOfRider(u)
     /\ \A q \in Reqs :
          (reqs[q].op = "cancel" /\ StepOf(q)) =>
            /\ reqs[q].pc = "updateRide" =>
                 /\ rides'[reqs[q].activeRide._id].status = "cancelled"
                 /\ reqs'[q].pc = "updateCycle"
            /\ reqs[q].pc = "updateCycle" =>
                 /\ response'.op = "cancel" /\ response'.status = 200
                 /\ rides'[response'.data].status # "active"]_vars

\* A ride was cancelled whose cycle the administrator had removed.
C27_Witness ==
  /\ response.op = "cancel" /\ response.status = 200
  /\ ~cycles[rides[response.data].cycleId].exists

\* C28: every step of an end or a cancel request of rider A changes no ride
\* but the ride of A it was admitted for, no cycle but the cycle that ride
\* references, of that cycle the status only, and no station.
C28_EndCancelFrame ==
  [][\A q \in Reqs :
       (reqs[q].op \in {"end", "cancel"} /\ StepOf(q)) =>
         LET ride == reqs[q].activeRide._id IN
         /\ rides[ride].userId = reqs[q].user
         /\ Len(rides') = Len(rides)
         /\ \A i \in RideIds : i # ride => rides'[i] = rides[i]
         /\ \A c \in CycleDocs :
              /\ c # rides[ride].cycleId => cycles'[c] = cycles[c]
              /\ cycles'[c].exists = cycles[c].exists
              /\ cycles'[c].isActive = cycles[c].isActive
         /\ stations' = stations]_vars

\* A rider's ride was ended while another rider's ride is active.
C28_Witness ==
  /\ response.op = "end" /\ response.status = 200
  /\ \E i \in RideIds :
       rides[i].userId # response.user /\ rides[i].status = "active"

\* C29: in the answer of GET /api/rides/stats, completedRides is the number
\* of rides with status completed, and activeRides + completedRides is at
\* most totalRides.  (Violated: the filter { endTime: { $exists: true } }
\* matches every ride, since each stores the field, null included.)
C29_RidesStatsCounts ==
  (response.op = "ridesStats" /\ response.status = 200) =>
    /\ response.data.completedRides =
         Cardinality({i \in RideIds : rides[i].status = "completed"})
    /\ response.data.activeRides + response.data.completedRides
         <= response.data.totalRides

\* C30: a GET request for the path /stats on the users router and on the
\* stations router is answered by the statistics handler: the handler of
\* /:id never runs with "stats" as its id.  (Violated: /:id is registered
\* before /stats on both routers and matches that path.)
C30_StatsRouteReached ==
  response.op \in {"getUser", "getStation"} => response.id # "stats"

====
